---- MODULE Spec2Model ----
(***************************************************************************)
(* Model of src/app.py: the geofenced face-recognition attendance server.  *)
(* Each worker (one thread per inbound request) runs process_mark_request  *)
(* step by step; the shared state is the rate-limiter map, the temp        *)
(* directory and the attendance table.  The routes /verify_location and    *)
(* /attendance_records are one step each.                                  *)
(*                                                                         *)
(* Units.  Time is whole seconds (the clock is sampled at one-second       *)
(* resolution).  Coordinates are given in a local frame whose origin is    *)
(* the campus: a latitude is the number of metres of meridian arc north of *)
(* the campus latitude, a longitude numeral is the campus longitude.  For  *)
(* two points on one meridian the haversine formula gives                  *)
(* a = sin(dlat/2)^2, c = |dlat|, R*c = the arc length, so distances are   *)
(* exact integers.  Confidences are hundredths (0.6 is 60).                *)
(*                                                                         *)
(* Each worker thread serves one request (one worker per inbound request). *)
(* A local variable is held in the state only while the code can still     *)
(* read it; once it is dead it is set back to its initial value.           *)
(***************************************************************************)
EXTENDS Integers, Sequences, FiniteSets, TLC

\* ---------------------------------------------------------------- bounds
\* Number of seconds the clock advances past its initial value.
MaxTicks == 2

\* ------------------------------------------------------- configuration
COLLEGE_LAT == 0
COLLEGE_LON == 0
RADIUS_METERS == 1000
CONFIDENCE_THRESHOLD == 60
RATE_WINDOW == 2
TEMP_DIR == "temp"
ALLOWED_EXTENSIONS == {"png", "jpg", "jpeg"}
OUTSIDE_MSG == "You are outside the radius of college, so go to college and mark your attendance."
\* LIMIT of the SELECT in attendance_records.
RECORDS_LIMIT == 200

\* --------------------------------------------------------------- values
\* Python's None, for the string-valued places (client_key, user_id, raw
\* form fields).
NONE == "<None>"

\* A Python float: a finite number, nan or inf.  Unset is a local that has
\* not been assigned.
Float(n) == [t |-> "float", v |-> n]
NaN == [t |-> "nan", v |-> 0]
Inf == [t |-> "inf", v |-> 0]
Unset == [t |-> "unset", v |-> 0]
\* A raised ValueError, as the outcome of a computation.
ValueError == [t |-> "ValueError", v |-> 0]
\* The recognition gateway's confidence: a float, None, or a value that is
\* not a number (a string).
NoneConf == [t |-> "none", v |-> 0]
StrConf == [t |-> "str", v |-> 0]

\* The worker threads of the server, and the client keys (remote
\* addresses) requests come from.
Workers == {"w1", "w2"}
Keys == {"k1", "k2"}

\* The initial reading of time.time(): the epoch is far behind, so the
\* first reading is at least RATE_WINDOW.
StartTime == RATE_WINDOW

\* Raw form fields for latitude / longitude: absent, or text.
RawLatitudes == {NONE, "abc", "nan", "inf", "1000", "1001"}
RawLongitudes == {NONE, "abc", "0"}

\* float(text): the parse of the enumerated texts.
ParseFloat(s) ==
    CASE s = "nan" -> NaN
      [] s = "inf" -> Inf
      [] s = "0" -> Float(0)
      [] s = "1000" -> Float(1000)
      [] s = "1001" -> Float(1001)
      [] OTHER -> ValueError

\* An uploaded file's name, split at its last '.' : directory part, stem
\* and extension (ext = "" when the name holds no '.').  NoFile is an absent
\* photo field; the all-empty name is the empty filename ''.
FileName(d, s, e) == [dir |-> d, stem |-> s, ext |-> e]
NoFile == FileName(NONE, "", "")
EmptyName == FileName("", "", "")
Uploads ==
    {NoFile, EmptyName, FileName("", "c", "exe"), FileName("", "noext", ""),
     FileName("../", "a", "JPG")}

\* str.lower() on the enumerated extensions.
Lower(e) == IF e = "JPG" THEN "jpg" ELSE e

allowed_file(filename) ==
    /\ filename.ext # ""
    /\ Lower(filename.ext) \in ALLOWED_EXTENSIONS

\* werkzeug's secure_filename: path separators and leading dots are
\* stripped, the base name is kept.
secure_filename(filename) == FileName("", filename.stem, filename.ext)

Abs(x) == IF x < 0 THEN -x ELSE x

\* math.sin / math.cos raise ValueError on an infinite argument; nan
\* propagates; on one meridian the result is the arc length |lat2 - lat1|.
haversine_meters(lat1, lon1, lat2, lon2) ==
    IF \E x \in {lat1, lon1, lat2, lon2} : x.t = "inf" THEN ValueError
    ELSE IF \E x \in {lat1, lon1, lat2, lon2} : x.t = "nan" THEN NaN
    ELSE CASE lon1.v = lon2.v -> Float(Abs(lat2.v - lat1.v))

\* x > y and x < y on Python floats: every comparison with nan is False.
FloatGt(x, n) == x.t = "float" /\ x.v > n
FloatLt(x, n) == x.t = "float" /\ x.v < n

\* What recognize_face may do: raise, return something that is not a pair,
\* or return a pair (user_id, confidence).
Pair(u, c) == [kind |-> "pair", user_id |-> u, confidence |-> c]
GatewayOutcomes ==
    {[kind |-> "raise", user_id |-> NONE, confidence |-> NoneConf],
     [kind |-> "notpair", user_id |-> NONE, confidence |-> NoneConf],
     Pair(NONE, Float(0)), Pair(NONE, Float(95)), Pair("user42", NoneConf),
     Pair("user42", Float(59)), Pair("user42", Float(60)),
     Pair("user42", StrConf)}

\* ---------------------------------------------------------------- state
VARIABLES
    clock,            \* time.time()
    last_request_at,  \* _last_request_at: key -> time of last admitted call
    files,            \* TEMP_DIR: path -> the worker whose upload it holds
    db,               \* the attendance table, in insertion order
    pc,               \* each worker's position in process_mark_request
    client_key, lat, lon, fname,        \* arguments (after validation)
    now, prev,                          \* locals of rate_limited
    dist, timestamp, filename,          \* locals of process_mark_request
    user_id, confidence,
    lastrowid,        \* cur.lastrowid: the id of the row the request inserted
    ret,              \* <<>> or <<response dict, status code>>
    log,              \* history: stages run and effects performed by the request
    admitted,         \* history: the admitted calls of rate_limited
    gateway,          \* history: what recognize_face answered for the request
    verdict,          \* the latest answer of /verify_location
    records           \* the latest answer of /attendance_records

shared == <<clock, last_request_at, files, db>>
locals == <<client_key, lat, lon, fname, now, prev, dist, timestamp,
            filename, user_id, confidence>>
history == <<log, admitted, gateway>>
replies == <<verdict, records>>
vars == <<shared, pc, locals, lastrowid, ret, history, replies>>

NoAnswer == [kind |-> "none", user_id |-> NONE, confidence |-> NoneConf]

NoPath == <<0, EmptyName>>

\* No answer of the route has been given yet.
NoVerdict == [kind |-> "none", latitude |-> Unset, longitude |-> Unset]
NoRecords == [kind |-> "none", n |-> 0, rows |-> <<>>]

Init ==
    /\ clock = StartTime
    /\ last_request_at = [k \in {} |-> 0]
    /\ files = [p \in {} |-> "w1"]
    /\ db = <<>>
    /\ pc = [w \in Workers |-> "idle"]
    /\ client_key = [w \in Workers |-> NONE]
    /\ lat = [w \in Workers |-> Unset]
    /\ lon = [w \in Workers |-> Unset]
    /\ fname = [w \in Workers |-> NoFile]
    /\ now = [w \in Workers |-> 0]
    /\ prev = [w \in Workers |-> 0]
    /\ dist = [w \in Workers |-> Unset]
    /\ timestamp = [w \in Workers |-> 0]
    /\ filename = [w \in Workers |-> NoPath]
    /\ user_id = [w \in Workers |-> NONE]
    /\ confidence = [w \in Workers |-> NoneConf]
    /\ ret = [w \in Workers |-> <<>>]
    /\ log = [w \in Workers |-> <<>>]
    /\ lastrowid = [w \in Workers |-> 0]
    /\ admitted = {}
    /\ gateway = [w \in Workers |-> NoAnswer]
    /\ verdict = NoVerdict
    /\ records = NoRecords

\* ------------------------------------------------------------- helpers
Terminal == {"done", "raised"}
CleanupStates ==
    {"cleanup_recognition_error", "cleanup_not_recognized",
     "cleanup_db_error", "cleanup_success"}

Logged(w, events) == log' = [log EXCEPT ![w] = @ \o events]
Has(w, e) == \E i \in 1..Len(log[w]) : log[w][i] = e

\* The locals of worker w after a step.
Locals(w, k, la, lo, f, n, p, d, t, fn, u, c) ==
    /\ client_key' = [client_key EXCEPT ![w] = k]
    /\ lat' = [lat EXCEPT ![w] = la]
    /\ lon' = [lon EXCEPT ![w] = lo]
    /\ fname' = [fname EXCEPT ![w] = f]
    /\ now' = [now EXCEPT ![w] = n]
    /\ prev' = [prev EXCEPT ![w] = p]
    /\ dist' = [dist EXCEPT ![w] = d]
    /\ timestamp' = [timestamp EXCEPT ![w] = t]
    /\ filename' = [filename EXCEPT ![w] = fn]
    /\ user_id' = [user_id EXCEPT ![w] = u]
    /\ confidence' = [confidence EXCEPT ![w] = c]

\* The frame of process_mark_request is gone.
Drop(w) ==
    Locals(w, NONE, Unset, Unset, NoFile, 0, 0, Unset, 0, NoPath, NONE,
           NoneConf)

\* Mutant of Fail: the failure response carries no message.
FailWithoutMessage(reason, message) ==
    [success |-> FALSE, reason |-> reason]

Fail(reason, message) ==
    [success |-> FALSE, reason |-> reason, message |-> message]

\* return (response, status).
Return(w, response, status) ==
    /\ ret' = [ret EXCEPT ![w] = <<response, status>>]
    /\ pc' = [pc EXCEPT ![w] = "done"]
    /\ Drop(w)

\* An exception leaves process_mark_request.
Raise(w) ==
    /\ pc' = [pc EXCEPT ![w] = "raised"]
    /\ Drop(w)
    /\ UNCHANGED ret

\* Lines 110-121: "ok", or the reason of the validation failure.
Validate(lat_raw, lon_raw, file_storage) ==
    IF lat_raw = NONE \/ lon_raw = NONE THEN "missing_coords"
    ELSE IF ParseFloat(lat_raw) = ValueError \/ ParseFloat(lon_raw) = ValueError
         THEN "invalid_coords"
    ELSE IF file_storage = NoFile \/ file_storage = EmptyName
         THEN "missing_photo"
    ELSE IF ~allowed_file(file_storage) THEN "bad_file_type"
    ELSE "ok"

ValidationMessage(reason) ==
    CASE reason = "missing_coords" -> "Missing coordinates."
      [] reason = "invalid_coords" -> "Invalid coordinates."
      [] reason = "missing_photo" -> "No photo uploaded."
      [] reason = "bad_file_type" -> "Unsupported file type."

\* Mutant of TooSoon: the window's end is taken as still too soon.
TooSoonInclusive(n, p) == n - p <= RATE_WINDOW

\* Line 99: the request comes too soon after the last admitted one.
TooSoon(n, p) == n - p < RATE_WINDOW

\* Mutant of OutsideRadius: the boundary itself is rejected.
OutsideRadiusInclusive(d) == d.t = "float" /\ d.v >= RADIUS_METERS

\* Line 129.
OutsideRadius(d) == FloatGt(d, RADIUS_METERS)

\* Mutant of Decision: a confidence equal to the threshold is rejected.
DecisionStrict(u, c) ==
    IF u = NONE \/ c.t = "none" THEN "not_recognized"
    ELSE IF c.t = "str" THEN "TypeError"
    ELSE IF c.t = "float" /\ c.v <= CONFIDENCE_THRESHOLD THEN "not_recognized"
    ELSE "accepted"

\* Line 156: "not_recognized", "accepted", or the TypeError of comparing a
\* confidence that is not a number (reached only when the identity and the
\* confidence are both not None: `or` short-circuits).
Decision(u, c) ==
    IF u = NONE \/ c.t = "none" THEN "not_recognized"
    ELSE IF c.t = "str" THEN "TypeError"
    ELSE IF FloatLt(c, CONFIDENCE_THRESHOLD) THEN "not_recognized"
    ELSE "accepted"

\* Line 162: `confidence if confidence else 0.0`.
Truthy(c) == ~(c.t = "none" \/ (c.t = "float" /\ c.v = 0))
\* Mutant of LoggedConfidence: a failed attempt is always logged with 0.0.
LoggedConfidenceZero(c) == Float(0)

LoggedConfidence(c) == IF Truthy(c) THEN c ELSE Float(0)

\* Mutant of NextId: the id of the last row is given again.
NextIdFixed == IF db = <<>> THEN Len(db) + 1 ELSE Len(db)

\* AUTOINCREMENT: one more than the largest id ever used (no row is deleted).
NextId == Len(db) + 1

Row(w, u, c) ==
    [id |-> NextId, user_id |-> u, timestamp |-> timestamp[w],
     latitude |-> lat[w], longitude |-> lon[w], distance |-> dist[w],
     confidence |-> c, raw_filename |-> filename[w]]

\* os.remove(filepath) inside try/except: the file is unlinked when it
\* exists, else FileNotFoundError is raised and swallowed.  A removal that
\* the operating system refuses for an existing file is not modelled.
Removed(path) == [p \in DOMAIN files \ {path} |-> files[p]]

\* ------------------------------------------------------------- actions
\* Lines 107-121: process_mark_request is entered and validates its
\* arguments.
Submit(w, lat_raw, lon_raw, file_storage, key) ==
    /\ pc[w] = "idle"
    /\ log' = [log EXCEPT ![w] = <<"Validator">>]
    /\ LET reason == Validate(lat_raw, lon_raw, file_storage) IN
       IF reason = "ok"
       THEN /\ Locals(w, key, ParseFloat(lat_raw), ParseFloat(lon_raw),
                      file_storage, 0, 0, Unset, 0, NoPath, NONE, NoneConf)
            /\ pc' = [pc EXCEPT ![w] = "rate"]
            /\ UNCHANGED ret
       ELSE Return(w, Fail(reason, ValidationMessage(reason)), 400)
    /\ UNCHANGED <<shared, lastrowid, admitted, gateway>>

\* Lines 124, 97-98: rate_limited reads the clock and the key's entry; the
\* defaultdict inserts 0.0 for a key it has not seen.
RateRead(w) ==
    /\ pc[w] = "rate"
    /\ IF client_key[w] = NONE
       THEN /\ pc' = [pc EXCEPT ![w] = "geo"]
            /\ UNCHANGED <<last_request_at, now, prev, log>>
       ELSE LET k == client_key[w]
                seen == k \in DOMAIN last_request_at IN
            /\ now' = [now EXCEPT ![w] = clock]
            /\ prev' = [prev EXCEPT ![w] = IF seen THEN last_request_at[k] ELSE 0]
            /\ last_request_at' =
                   [x \in DOMAIN last_request_at \cup {k} |->
                       IF x \in DOMAIN last_request_at
                       THEN last_request_at[x] ELSE 0]
            /\ Logged(w, IF seen THEN <<"RateLimiter">>
                         ELSE <<"RateLimiter", "rate_insert">>)
            /\ pc' = [pc EXCEPT ![w] = "rate_decide"]
    /\ UNCHANGED <<clock, files, db, client_key, lat, lon, fname, dist,
                   timestamp, filename, user_id, confidence, ret, lastrowid,
                   admitted, gateway>>

\* Mutant of RateDecide: a blocked call records its time too.
RateDecideRecordsBlocked(w) ==
    /\ pc[w] = "rate_decide"
    /\ last_request_at' = [last_request_at EXCEPT ![client_key[w]] = now[w]]
    /\ IF TooSoon(now[w], prev[w])
       THEN /\ Return(w, Fail("rate_limited", "Too many requests. Slow down."), 429)
            /\ UNCHANGED <<log, admitted>>
       ELSE /\ admitted' = admitted \cup
                   {[by |-> w, key |-> client_key[w], now |-> now[w]]}
            /\ Logged(w, <<"rate_update">>)
            /\ pc' = [pc EXCEPT ![w] = "geo"]
            /\ now' = [now EXCEPT ![w] = 0]
            /\ prev' = [prev EXCEPT ![w] = 0]
            /\ UNCHANGED <<client_key, lat, lon, fname, dist, timestamp,
                           filename, user_id, confidence, ret>>
    /\ UNCHANGED <<clock, files, db, lastrowid, gateway>>

\* Mutant of RateDecide: an admitted call records its time for every key.
RateDecideAllKeys(w) ==
    /\ pc[w] = "rate_decide"
    /\ IF TooSoon(now[w], prev[w])
       THEN /\ Return(w, Fail("rate_limited", "Too many requests. Slow down."), 429)
            /\ UNCHANGED <<last_request_at, log, admitted>>
       ELSE /\ last_request_at' = [k \in DOMAIN last_request_at |-> now[w]]
            /\ admitted' = admitted \cup
                   {[by |-> w, key |-> client_key[w], now |-> now[w]]}
            /\ Logged(w, <<"rate_update">>)
            /\ pc' = [pc EXCEPT ![w] = "geo"]
            /\ now' = [now EXCEPT ![w] = 0]
            /\ prev' = [prev EXCEPT ![w] = 0]
            /\ UNCHANGED <<client_key, lat, lon, fname, dist, timestamp,
                           filename, user_id, confidence, ret>>
    /\ UNCHANGED <<clock, files, db, lastrowid, gateway>>

\* Lines 99-102, 125: block, or record the time and admit.
RateDecide(w) ==
    /\ pc[w] = "rate_decide"
    /\ IF TooSoon(now[w], prev[w])
       THEN /\ Return(w, Fail("rate_limited", "Too many requests. Slow down."), 429)
            /\ UNCHANGED <<last_request_at, log, admitted>>
       ELSE /\ last_request_at' =
                   [last_request_at EXCEPT ![client_key[w]] = now[w]]
            /\ admitted' = admitted \cup
                   {[by |-> w, key |-> client_key[w], now |-> now[w]]}
            /\ Logged(w, <<"rate_update">>)
            /\ pc' = [pc EXCEPT ![w] = "geo"]
            /\ now' = [now EXCEPT ![w] = 0]
            /\ prev' = [prev EXCEPT ![w] = 0]
            /\ UNCHANGED <<client_key, lat, lon, fname, dist, timestamp,
                           filename, user_id, confidence, ret>>
    /\ UNCHANGED <<clock, files, db, lastrowid, gateway>>

\* Mutant of Geofence: a request rejected outside the radius gives its
\* rate-limiter slot back.
GeofenceReleasesSlot(w) ==
    /\ pc[w] = "geo"
    /\ LET d == haversine_meters(Float(COLLEGE_LAT), Float(COLLEGE_LON),
                                 lat[w], lon[w]) IN
       IF d = ValueError
       THEN /\ Raise(w)
            /\ Logged(w, <<"GeoMath", "raise ValueError">>)
            /\ UNCHANGED last_request_at
       ELSE /\ Logged(w, <<"GeoMath">>)
            /\ IF OutsideRadius(d)
               THEN /\ Return(w, [success |-> FALSE,
                                  reason |-> "outside_radius",
                                  distance |-> d, message |-> OUTSIDE_MSG], 403)
                    /\ last_request_at' =
                          [k \in DOMAIN last_request_at |->
                              IF k = client_key[w] THEN 0
                              ELSE last_request_at[k]]
               ELSE /\ pc' = [pc EXCEPT ![w] = "stage"]
                    /\ Locals(w, NONE, lat[w], lon[w], fname[w], 0, 0, d, 0,
                              NoPath, NONE, NoneConf)
                    /\ UNCHANGED <<ret, last_request_at>>
    /\ UNCHANGED <<clock, files, db, lastrowid, admitted, gateway>>

\* Lines 128-131: the server-side location check.
Geofence(w) ==
    /\ pc[w] = "geo"
    /\ LET d == haversine_meters(Float(COLLEGE_LAT), Float(COLLEGE_LON),
                                 lat[w], lon[w]) IN
       IF d = ValueError
       THEN /\ Raise(w)
            /\ Logged(w, <<"GeoMath", "raise ValueError">>)
       ELSE /\ Logged(w, <<"GeoMath">>)
            /\ IF OutsideRadius(d)
               THEN Return(w, [success |-> FALSE, reason |-> "outside_radius",
                               distance |-> d, message |-> OUTSIDE_MSG], 403)
               ELSE /\ pc' = [pc EXCEPT ![w] = "stage"]
                    /\ Locals(w, NONE, lat[w], lon[w], fname[w], 0, 0, d, 0,
                              NoPath, NONE, NoneConf)
                    /\ UNCHANGED ret
    /\ UNCHANGED <<shared, lastrowid, admitted, gateway>>

\* Mutant of Stage: a failed save is not noticed and recognition goes on.
StageIgnoresSaveFailure(w, save_ok) ==
    /\ pc[w] = "stage"
    /\ LET path == <<clock, secure_filename(fname[w])>> IN
       /\ IF save_ok
          THEN /\ files' = [p \in DOMAIN files \cup {path} |->
                               IF p = path THEN w ELSE files[p]]
               /\ Logged(w, <<"ArtifactStager", "staged">>)
          ELSE /\ Logged(w, <<"ArtifactStager">>)
               /\ UNCHANGED files
       /\ pc' = [pc EXCEPT ![w] = "recognize"]
       /\ Locals(w, NONE, lat[w], lon[w], NoFile, 0, 0, dist[w], clock,
                 path, NONE, NoneConf)
       /\ UNCHANGED ret
    /\ UNCHANGED <<clock, last_request_at, db, lastrowid, admitted, gateway>>

\* Lines 134-142: the upload is saved under temp/{timestamp}_{safe_name}.
Stage(w, save_ok) ==
    /\ pc[w] = "stage"
    /\ LET path == <<clock, secure_filename(fname[w])>> IN
       IF save_ok
       THEN /\ files' = [p \in DOMAIN files \cup {path} |->
                            IF p = path THEN w ELSE files[p]]
            /\ Logged(w, <<"ArtifactStager", "staged">>)
            /\ pc' = [pc EXCEPT ![w] = "recognize"]
            /\ Locals(w, NONE, lat[w], lon[w], NoFile, 0, 0, dist[w], clock,
                      path, NONE, NoneConf)
            /\ UNCHANGED ret
       ELSE /\ Logged(w, <<"ArtifactStager">>)
            /\ Return(w, [success |-> FALSE, reason |-> "save_failed",
                          message |-> "Failed to save uploaded file.",
                          error |-> "str(e)"], 500)
            /\ UNCHANGED files
    /\ UNCHANGED <<clock, last_request_at, db, lastrowid, admitted, gateway>>

\* Lines 145-148: recognize_face is called and its result unpacked; a
\* raised error, or a result that does not unpack, is caught.
Recognize(w, out) ==
    /\ pc[w] = "recognize"
    /\ Logged(w, <<"RecognitionGateway">>)
    /\ gateway' = [gateway EXCEPT ![w] = out]
    /\ IF out.kind = "pair"
       THEN /\ user_id' = [user_id EXCEPT ![w] = out.user_id]
            /\ confidence' = [confidence EXCEPT ![w] = out.confidence]
            /\ pc' = [pc EXCEPT ![w] = "decide"]
            /\ UNCHANGED <<client_key, lat, lon, fname, now, prev, dist,
                           timestamp, filename>>
       ELSE /\ pc' = [pc EXCEPT ![w] = "cleanup_recognition_error"]
            /\ Locals(w, NONE, Unset, Unset, NoFile, 0, 0, Unset, 0,
                      filename[w], NONE, NoneConf)
    /\ UNCHANGED <<shared, ret, lastrowid, admitted>>

\* Lines 156-165 and 173-180: the decision, then INSERT + commit.
Log(w, db_ok) ==
    /\ pc[w] = "decide"
    /\ LET decision == Decision(user_id[w], confidence[w]) IN
       CASE decision = "TypeError" ->
              /\ Raise(w)
              /\ Logged(w, <<"raise TypeError">>)
              /\ UNCHANGED <<db, lastrowid>>
         [] decision = "not_recognized" ->
              /\ pc' = [pc EXCEPT ![w] = "cleanup_not_recognized"]
              /\ Locals(w, NONE, Unset, Unset, NoFile, 0, 0, Unset, 0,
                        filename[w], NONE, confidence[w])
              /\ UNCHANGED ret
              /\ IF db_ok
                 THEN /\ db' = Append(db, Row(w, NONE,
                                          LoggedConfidence(confidence[w])))
                      /\ lastrowid' = [lastrowid EXCEPT ![w] = NextId]
                      /\ Logged(w, <<"AttendanceStore", "appended">>)
                 ELSE /\ Logged(w, <<"AttendanceStore", "append_failed">>)
                      /\ UNCHANGED <<db, lastrowid>>
         [] decision = "accepted" ->
              /\ UNCHANGED ret
              /\ IF db_ok
                 THEN /\ db' = Append(db, Row(w, user_id[w], confidence[w]))
                      /\ lastrowid' = [lastrowid EXCEPT ![w] = NextId]
                      /\ Logged(w, <<"AttendanceStore", "appended">>)
                      /\ pc' = [pc EXCEPT ![w] = "cleanup_success"]
                      /\ Locals(w, NONE, Unset, Unset, NoFile, 0, 0, dist[w],
                                0, filename[w], user_id[w], confidence[w])
                 ELSE /\ Logged(w, <<"AttendanceStore", "append_failed">>)
                      /\ pc' = [pc EXCEPT ![w] = "cleanup_db_error"]
                      /\ Locals(w, NONE, Unset, Unset, NoFile, 0, 0, Unset, 0,
                                filename[w], NONE, NoneConf)
                      /\ UNCHANGED <<db, lastrowid>>
    /\ UNCHANGED <<clock, last_request_at, files, admitted, gateway>>

\* The response each cleanup position returns.
Response(w) ==
    CASE pc[w] = "cleanup_recognition_error" ->
           <<[success |-> FALSE, reason |-> "recognition_error",
              message |-> "Recognition failed.", error |-> "str(e)"], 500>>
      [] pc[w] = "cleanup_not_recognized" ->
           <<[success |-> FALSE, reason |-> "not_recognized",
              confidence |-> confidence[w],
              message |-> "Face not recognized. Please try again."], 401>>
      [] pc[w] = "cleanup_db_error" ->
           <<[success |-> FALSE, reason |-> "db_error",
              message |-> "Failed to write attendance to DB.",
              error |-> "str(e)"], 500>>
      [] pc[w] = "cleanup_success" ->
           <<[success |-> TRUE, user_id |-> user_id[w],
              confidence |-> confidence[w], distance |-> dist[w],
              message |-> "Attendance marked successfully."], 200>>

\* Lines 149-153, 166-170, 181-185, 188-194: best-effort removal of the
\* staged file, then the return.
Cleanup(w) ==
    /\ pc[w] \in CleanupStates
    /\ IF filename[w] \in DOMAIN files
       THEN /\ files' = Removed(filename[w])
            /\ Logged(w, <<"remove", "removed">>)
       ELSE /\ Logged(w, <<"remove", "remove_failed">>)
            /\ UNCHANGED files
    /\ Return(w, Response(w)[1], Response(w)[2])
    /\ UNCHANGED <<clock, last_request_at, db, lastrowid, admitted, gateway>>

\* A second passes.
Tick ==
    /\ clock < StartTime + MaxTicks
    /\ clock' = clock + 1
    /\ UNCHANGED <<last_request_at, files, db, pc, locals, lastrowid, ret,
                   history, replies>>

\* One step of the request worker w is serving; the answers the other
\* routes gave stay as they are.
Step(w, outcomes) ==
    /\ \/ RateRead(w)
       \/ RateDecide(w)
       \/ Geofence(w)
       \/ \E save_ok \in BOOLEAN : Stage(w, save_ok)
       \/ \E out \in outcomes : Recognize(w, out)
       \/ \E db_ok \in BOOLEAN : Log(w, db_ok)
       \/ Cleanup(w)
    /\ UNCHANGED replies

Receive(w, lats, lons, uploads, keys) ==
    /\ \E lat_raw \in lats, lon_raw \in lons, file_storage \in uploads,
          key \in keys :
           Submit(w, lat_raw, lon_raw, file_storage, key)
    /\ UNCHANGED replies

\* Requests are handled by concurrent workers, one thread per request.  The
\* routes always pass a client key; the requests are drawn from the ones
\* that get past validation or lack the photo, and the gateway's answers
\* from one of each kind.
ConcurrentLatitudes == {"1000", "1001"}
ConcurrentUploads == {NoFile, FileName("../", "a", "JPG")}
ConcurrentOutcomes ==
    {[kind |-> "raise", user_id |-> NONE, confidence |-> NoneConf],
     Pair(NONE, Float(0)), Pair("user42", Float(60)),
     Pair("user42", StrConf)}

Next ==
    \/ \E w \in Workers :
          Receive(w, ConcurrentLatitudes, {"0"}, ConcurrentUploads, Keys)
    \/ \E w \in Workers : Step(w, ConcurrentOutcomes)
    \/ Tick

Spec == Init /\ [][Next]_vars

\* Requests are handled one at a time: a request is received only when no
\* other is in progress.  Every enumerated input and gateway answer occurs;
\* the caller passes one client key or none.
SequentialKeys == {"k1", NONE}

ReceiveAlone(w) ==
    /\ \A o \in Workers \ {w} : pc[o] \in Terminal \cup {"idle"}
    /\ Receive(w, RawLatitudes, RawLongitudes, Uploads, SequentialKeys)

NextSeq ==
    \/ \E w \in Workers : ReceiveAlone(w)
    \/ \E w \in Workers : Step(w, GatewayOutcomes)
    \/ Tick

SpecSeq == Init /\ [][NextSeq]_vars

\* ---------------------------------------------------------- other routes
\* An answer of /verify_location for the parsed coordinates (la, lo).
Verdict(la, lo, body, status) ==
    [kind |-> "reply", latitude |-> la, longitude |-> lo, body |-> body,
     status |-> status]

\* Mutant of verify_location: the boundary itself is answered 403.
verify_location_boundary_out(lat_raw, lon_raw) ==
    /\ verdict' =
          IF lat_raw = NONE \/ lon_raw = NONE
          THEN Verdict(Unset, Unset,
                       [allowed |-> FALSE, reason |-> "missing_coords",
                        message |-> "Missing coordinates."], 400)
          ELSE IF ParseFloat(lat_raw) = ValueError
                     \/ ParseFloat(lon_raw) = ValueError
          THEN Verdict(Unset, Unset,
                       [allowed |-> FALSE, reason |-> "invalid_coords",
                        message |-> "Invalid coordinates."], 400)
          ELSE LET la == ParseFloat(lat_raw)
                   lo == ParseFloat(lon_raw)
                   d == haversine_meters(Float(COLLEGE_LAT),
                                         Float(COLLEGE_LON), la, lo)
               IN  IF d = ValueError
                   THEN [kind |-> "raise", latitude |-> la, longitude |-> lo]
                   ELSE IF d.t = "float" /\ d.v >= RADIUS_METERS
                   THEN Verdict(la, lo, [allowed |-> FALSE, distance |-> d,
                                         message |-> OUTSIDE_MSG], 403)
                   ELSE Verdict(la, lo,
                                [allowed |-> TRUE, distance |-> d,
                                 message |-> "You are inside the college radius. You may proceed."],
                                200)
    /\ UNCHANGED <<shared, pc, locals, lastrowid, ret, history, records>>

\* Lines 209-222: /verify_location answers 400 for absent or unparseable
\* coordinates, 403 beyond the radius, else 200; the ValueError of the
\* distance computation (line 219) is not caught.
verify_location(lat_raw, lon_raw) ==
    /\ verdict' =
          IF lat_raw = NONE \/ lon_raw = NONE
          THEN Verdict(Unset, Unset,
                       [allowed |-> FALSE, reason |-> "missing_coords",
                        message |-> "Missing coordinates."], 400)
          ELSE IF ParseFloat(lat_raw) = ValueError
                     \/ ParseFloat(lon_raw) = ValueError
          THEN Verdict(Unset, Unset,
                       [allowed |-> FALSE, reason |-> "invalid_coords",
                        message |-> "Invalid coordinates."], 400)
          ELSE LET la == ParseFloat(lat_raw)
                   lo == ParseFloat(lon_raw)
                   d == haversine_meters(Float(COLLEGE_LAT),
                                         Float(COLLEGE_LON), la, lo)
               IN  IF d = ValueError
                   THEN [kind |-> "raise", latitude |-> la, longitude |-> lo]
                   ELSE IF OutsideRadius(d)
                   THEN Verdict(la, lo, [allowed |-> FALSE, distance |-> d,
                                         message |-> OUTSIDE_MSG], 403)
                   ELSE Verdict(la, lo,
                                [allowed |-> TRUE, distance |-> d,
                                 message |-> "You are inside the college radius. You may proceed."],
                                200)
    /\ UNCHANGED <<shared, pc, locals, lastrowid, ret, history, records>>

Min(a, b) == IF a < b THEN a ELSE b

\* Line 245, ORDER BY timestamp DESC LIMIT 200: the results the SELECT may
\* give, as sequences of positions in the table.  Rows come by descending
\* timestamp and the rows cut off are not newer (by timestamp) than the
\* rows kept; the order among rows of equal timestamp is not determined
\* by the statement.
Selections ==
    LET n == Len(db)
        m == Min(n, RECORDS_LIMIT)
    IN  {s \in [1..m -> 1..n] :
            /\ \A i \in 1..m : \A j \in 1..m : i # j => s[i] # s[j]
            /\ \A i \in 1..(m - 1) :
                  db[s[i]].timestamp >= db[s[i + 1]].timestamp
            /\ \A k \in 1..n :
                  (\A i \in 1..m : s[i] # k) =>
                      \A i \in 1..m : db[s[i]].timestamp >= db[k].timestamp}

\* Lines 241-255: /attendance_records answers with the selected rows, in
\* the order the SELECT gave them.
attendance_records ==
    /\ \E s \in Selections :
          records' = [kind |-> "reply", n |-> Len(db),
                      rows |-> [i \in 1..Len(s) |-> db[s[i]]]]
    /\ UNCHANGED <<shared, pc, locals, lastrowid, ret, history, verdict>>

\* The three routes served together within one second of the clock:
\* attendance requests one at a time, with /verify_location and
\* /attendance_records called at any moment.  The attendance requests are
\* valid ones with each kind of parseable latitude.
RouteLatitudes == {"nan", "inf", "1000", "1001"}
RouteUploads == {FileName("../", "a", "JPG")}
RouteOutcomes == {Pair(NONE, Float(0)), Pair("user42", Float(60))}

ReceiveRoute(w) ==
    /\ \A o \in Workers \ {w} : pc[o] \in Terminal \cup {"idle"}
    /\ Receive(w, RouteLatitudes, {"0"}, RouteUploads, Keys)

NextRoutes ==
    \/ \E w \in Workers : ReceiveRoute(w)
    \/ \E w \in Workers : Step(w, RouteOutcomes)
    \/ \E lat_raw \in RawLatitudes, lon_raw \in RawLongitudes :
          verify_location(lat_raw, lon_raw)
    \/ attendance_records

SpecRoutes == Init /\ [][NextRoutes]_vars

\* ------------------------------------------------------------ properties
HasIn(l, e) == \E i \in 1..Len(l) : l[i] = e

\* The request of w got the answer (reason, status), in the given values of
\* pc and ret.
AnsweredIn(p, r, w, reason, status) ==
    /\ p[w] = "done"
    /\ r[w][2] = status
    /\ "reason" \in DOMAIN r[w][1]
    /\ r[w][1].reason = reason
Answered(w, reason, status) == AnsweredIn(pc, ret, w, reason, status)

\* The step on which the request of w ends.
Exits(w) == pc[w] \notin Terminal \cup {"idle"} /\ pc'[w] \in Terminal

\* C1: of two rate_limited calls for one key whose `now` values are less
\* than RATE_WINDOW apart, at most one is admitted, whatever the
\* interleaving of the read, the comparison and the write.
C1_AtMostOneAdmittedInWindow ==
    \A a \in admitted : \A b \in admitted :
        (a.by # b.by /\ a.key = b.key) => Abs(a.now - b.now) >= RATE_WINDOW

\* C2: once the upload is staged, removal of the staged file is attempted
\* before process_mark_request is left, on every way out (a return or an
\* escaping exception), and when the removal succeeds the file is gone.
C2_StagedFileRemovedOnEveryExit ==
    [][\A w \in Workers :
          (Exits(w) /\ HasIn(log[w], "staged")) =>
              /\ HasIn(log'[w], "remove")
              /\ HasIn(log'[w], "removed") => filename[w] \notin DOMAIN files'
      ]_vars

\* C3: a failed INSERT/commit, for either decision, ends the request with
\* db_error and HTTP 500 after the cleanup; it never yields 401 or 200.
C3_AppendFailureIsDbError ==
    \A w \in Workers :
        (pc[w] \in Terminal /\ Has(w, "append_failed")) =>
            /\ Answered(w, "db_error", 500)
            /\ Has(w, "remove")

\* The gateway answered a pair whose confidence is below the threshold.
LowConfidence(g) ==
    g.kind = "pair" /\ g.confidence.t = "float"
        /\ g.confidence.v < CONFIDENCE_THRESHOLD

\* C4: a request whose gateway confidence is below 0.6 ends not_recognized
\* with HTTP 401, and the table then holds the row this request inserted,
\* with a null user_id, whatever identity the gateway returned.
C4_LowConfidenceRejectedAndLogged ==
    \A w \in Workers :
        (pc[w] \in Terminal /\ LowConfidence(gateway[w])) =>
            /\ Answered(w, "not_recognized", 401)
            /\ lastrowid[w] \in 1..Len(db)
            /\ db[lastrowid[w]].user_id = NONE

\* The gateway answered an identity with a confidence at or above the
\* threshold.
HighConfidence(g) ==
    g.kind = "pair" /\ g.user_id # NONE /\ g.confidence.t = "float"
        /\ g.confidence.v >= CONFIDENCE_THRESHOLD

\* The request of w ends marked: success:true, HTTP 200, its row in the
\* table carries the gateway's identity, and the staged file is gone.
EndsMarked(w) ==
    /\ pc'[w] = "done"
    /\ ret'[w][2] = 200
    /\ ret'[w][1].success = TRUE
    /\ ret'[w][1].user_id = gateway[w].user_id
    /\ lastrowid'[w] \in 1..Len(db')
    /\ db'[lastrowid'[w]].user_id = gateway[w].user_id
    /\ filename[w] \notin DOMAIN files'

\* The request of w ends with db_error after a failed append: no row, and
\* the staged file is gone.
EndsDbError(w) ==
    /\ HasIn(log'[w], "append_failed")
    /\ AnsweredIn(pc', ret', w, "db_error", 500)
    /\ lastrowid'[w] = 0
    /\ filename[w] \notin DOMAIN files'

\* C5 as stated: a request whose gateway answer has an identity and a
\* confidence >= 0.6 ends with success:true and HTTP 200, its row carries
\* that identity, and the staged file has been removed.
C5_HighConfidenceAlwaysMarked ==
    [][\A w \in Workers :
          (Exits(w) /\ HighConfidence(gateway[w])) => EndsMarked(w)]_vars

\* C5 (amended): such a request ends with success:true, HTTP 200, its row
\* carrying that identity and the staged file removed, unless the append
\* fails: then it ends with db_error, HTTP 500, no row, the file removed.
C5_HighConfidenceMarkedOrDbError ==
    [][\A w \in Workers :
          (Exits(w) /\ HighConfidence(gateway[w])) =>
              (EndsMarked(w) \/ EndsDbError(w))]_vars

C5_Witness ==
    \E w \in Workers :
        /\ pc[w] = "done"
        /\ ret[w][2] = 200
        /\ gateway[w] = Pair("user42", Float(CONFIDENCE_THRESHOLD))
        /\ lastrowid[w] \in 1..Len(db)
        /\ db[lastrowid[w]].user_id = "user42"
        /\ files = [p \in {} |-> "w1"]

\* The admitted calls for key k so far, and the time of the latest.
PriorAdmits(k) == {a \in admitted : a.key = k}
LastAdmit(k) ==
    (CHOOSE a \in PriorAdmits(k) : \A b \in PriorAdmits(k) : b.now <= a.now).now

\* The call of w ends blocked / admitted at time t for key k.
EndsBlocked(w) ==
    /\ AnsweredIn(pc', ret', w, "rate_limited", 429)
    /\ last_request_at' = last_request_at
EndsAdmitted(w, k, t) ==
    /\ pc'[w] = "geo"
    /\ last_request_at'[k] = t

\* C6: when requests are served one at a time, a call for a key at time t2
\* that follows an admitted call for that key at time t1 is blocked if
\* t2 - t1 < 2.0 and admitted, storing t2, if t2 - t1 >= 2.0; the first
\* call for a key is admitted.
C6_ConsecutiveCalls ==
    [][\A w \in Workers :
          (pc[w] = "rate_decide" /\ pc'[w] # "rate_decide") =>
              LET k == client_key[w]
                  t2 == now[w]
              IN  IF PriorAdmits(k) = {} THEN EndsAdmitted(w, k, t2)
                  ELSE IF t2 - LastAdmit(k) < RATE_WINDOW THEN EndsBlocked(w)
                  ELSE EndsAdmitted(w, k, t2)]_vars

C6_Witness ==
    \E a \in admitted : \E b \in admitted :
        /\ a.by # b.by
        /\ a.key = b.key
        /\ b.now - a.now >= RATE_WINDOW
        /\ last_request_at[a.key] = b.now

\* C7: a request answered rate_limited (429) changes nothing: the stored
\* times of all keys, the temp directory and the table are as they were,
\* and the request performed no effect at all.
C7_BlockedChangesNothing ==
    [][\A w \in Workers :
          AnsweredIn(pc', ret', w, "rate_limited", 429) =>
              /\ log'[w] = <<"Validator", "RateLimiter">>
              /\ pc[w] # "done" => UNCHANGED <<last_request_at, files, db>>
      ]_vars

C7_Witness ==
    \E w \in Workers :
        /\ Answered(w, "rate_limited", 429)
        /\ \E k \in DOMAIN last_request_at : clock > last_request_at[k]

\* C8: a valid, admitted request whose distance from the campus is above
\* RADIUS_METERS ends outside_radius, HTTP 403, carrying that distance,
\* with no file staged and no row inserted; a distance of exactly
\* RADIUS_METERS is let through.
C8_OutsideRadiusRejected ==
    [][\A w \in Workers :
          (pc[w] = "geo" /\ pc'[w] # "geo" /\ lat[w].t = "float"
                /\ lon[w].t = "float") =>
              LET d == Float(Abs(lat[w].v - COLLEGE_LAT)) IN
              /\ d.v > RADIUS_METERS =>
                    /\ pc'[w] = "done"
                    /\ ret'[w] = <<[success |-> FALSE,
                                   reason |-> "outside_radius",
                                   distance |-> d,
                                   message |-> OUTSIDE_MSG], 403>>
                    /\ ~HasIn(log'[w], "staged")
                    /\ ~HasIn(log'[w], "appended")
                    /\ UNCHANGED <<files, db>>
              /\ d.v = RADIUS_METERS => pc'[w] = "stage"]_vars

C8_Witness ==
    \E w \in Workers :
        /\ Answered(w, "outside_radius", 403)
        /\ ret[w][1].distance = Float(RADIUS_METERS + 1)
        /\ ~Has(w, "staged")
        /\ lastrowid[w] = 0

\* The stages of the pipeline, in order, and the position of an event's
\* stage (0 for an event that is not a stage).
Stages ==
    <<"Validator", "RateLimiter", "GeoMath", "ArtifactStager",
      "RecognitionGateway", "AttendanceStore">>
StageNo(e) ==
    CASE e = "Validator" -> 1
      [] e = "RateLimiter" -> 2
      [] e = "GeoMath" -> 3
      [] e = "ArtifactStager" -> 4
      [] e = "RecognitionGateway" -> 5
      [] e = "AttendanceStore" -> 6
      [] OTHER -> 0
IsStage(e) == StageNo(e) > 0
StagesRun(l) == SelectSeq(l, IsStage)
LastStage(l) == LET r == StagesRun(l) IN r[Len(r)]

\* The stage at which a request with this answer failed.
FailingStage(reason) ==
    CASE reason \in {"missing_coords", "invalid_coords", "missing_photo",
                     "bad_file_type"} -> "Validator"
      [] reason = "rate_limited" -> "RateLimiter"
      [] reason = "outside_radius" -> "GeoMath"
      [] reason = "save_failed" -> "ArtifactStager"
      [] reason = "recognition_error" -> "RecognitionGateway"
      [] OTHER -> "AttendanceStore"

\* The stages in l ran in the pipeline's order, each after the success of
\* the ones before it, and each effect right after its own stage.
WellOrdered(l, g) ==
    LET r == StagesRun(l) IN
    /\ \A i \in 1..(Len(r) - 1) : StageNo(r[i]) < StageNo(r[i + 1])
    /\ l[1] = "Validator"
    /\ (HasIn(l, "GeoMath") /\ HasIn(l, "RateLimiter")) =>
          HasIn(l, "rate_update")
    /\ HasIn(l, "ArtifactStager") => HasIn(l, "GeoMath")
    /\ HasIn(l, "RecognitionGateway") => HasIn(l, "staged")
    /\ HasIn(l, "AttendanceStore") => g.kind = "pair"
    /\ \A i \in 2..Len(l) :
          /\ l[i] = "rate_insert" => l[i - 1] = "RateLimiter"
          /\ l[i] = "rate_update" => l[i - 1] \in {"RateLimiter", "rate_insert"}
          /\ l[i] = "staged" => l[i - 1] = "ArtifactStager"
          /\ l[i] \in {"appended", "append_failed"} =>
                l[i - 1] = "AttendanceStore"

\* C9: the stages of a request run in the order Validator, RateLimiter,
\* GeoMath, ArtifactStager, RecognitionGateway, AttendanceStore, each only
\* after the earlier ones succeeded; the stage that fails is the last one
\* run, and the rate-limiter map, the temp directory and the table change
\* only in the step of the stage that owns them.
C9_StagesInOrder ==
    [][\A w \in Workers :
          pc[w] # pc'[w] =>
              /\ WellOrdered(log'[w], gateway'[w])
              /\ (pc'[w] = "done" /\ "reason" \in DOMAIN ret'[w][1]) =>
                    LastStage(log'[w]) = FailingStage(ret'[w][1].reason)
              /\ (pc'[w] = "raised" /\ HasIn(log'[w], "raise ValueError")) =>
                    LastStage(log'[w]) = "GeoMath"
              /\ last_request_at' # last_request_at =>
                    LastStage(log'[w]) = "RateLimiter"
              /\ db' # db => LastStage(log'[w]) = "AttendanceStore"
              /\ (files' # files /\ DOMAIN files \subseteq DOMAIN files') =>
                    LastStage(log'[w]) = "ArtifactStager"]_vars

C9_Witness ==
    \E w \in Workers :
        /\ Answered(w, "recognition_error", 500)
        /\ StagesRun(log[w]) = SubSeq(Stages, 1, 5)
        /\ lastrowid[w] = 0

\* C10: every request ends by returning a (response, status) pair; no
\* exception leaves process_mark_request, whatever the input, the gateway,
\* the staging and the store do.
C10_AlwaysReturnsPair ==
    \A w \in Workers :
        pc[w] \in Terminal => (pc[w] = "done" /\ Len(ret[w]) = 2)

\* The HTTP status that goes with a failure reason (0: no such reason).
StatusOf(reason) ==
    CASE reason \in {"missing_coords", "invalid_coords", "missing_photo",
                     "bad_file_type"} -> 400
      [] reason = "rate_limited" -> 429
      [] reason = "outside_radius" -> 403
      [] reason = "not_recognized" -> 401
      [] reason \in {"save_failed", "recognition_error", "db_error"} -> 500
      [] OTHER -> 0

\* C11: every (response, status) pair process_mark_request returns is
\* success:true with 200, or success:false with a reason and a message and
\* the status of that reason: 400 for the four validation reasons, 429
\* rate_limited, 403 outside_radius, 401 not_recognized, 500 for
\* save_failed, recognition_error and db_error.
C11_ResponsesEnumerated ==
    \A w \in Workers :
        pc[w] = "done" =>
            LET response == ret[w][1]
                status == ret[w][2]
            IN  /\ Len(ret[w]) = 2
                /\ "success" \in DOMAIN response
                /\ response.success \in BOOLEAN
                /\ response.success => status = 200
                /\ ~response.success =>
                      /\ {"reason", "message"} \subseteq DOMAIN response
                      /\ StatusOf(response.reason) # 0
                      /\ StatusOf(response.reason) = status

C11_Witness ==
    \E w \in Workers : \E o \in Workers :
        /\ Answered(w, "save_failed", 500)
        /\ pc[o] = "done"
        /\ ret[o][2] = 200
        /\ ret[o][1].success

\* Every pair the gateway has returned so far has a confidence in [0,1]
\* (0..100 hundredths).
GatewayInRange ==
    \A w \in Workers :
        gateway[w].kind = "pair" =>
            /\ gateway[w].confidence.t = "float"
            /\ gateway[w].confidence.v \in 0..100

\* C12: provided the gateway's confidences are in [0,1], every row of the
\* table has a distance >= 0 and a confidence in [0,1], and a row with a
\* non-null user_id has a confidence >= CONFIDENCE_THRESHOLD.
C12_RecordInvariants ==
    GatewayInRange =>
        \A i \in 1..Len(db) :
            /\ db[i].distance.t = "float"
            /\ db[i].distance.v >= 0
            /\ db[i].confidence.t = "float"
            /\ db[i].confidence.v \in 0..100
            /\ db[i].user_id # NONE =>
                  db[i].confidence.v >= CONFIDENCE_THRESHOLD

\* C13: the table is append-only under every interleaving of concurrent
\* requests: a step leaves every row it finds as it is, adds at most one
\* row, at the end, and the ids are distinct and increase in the order of
\* the appends.
C13_AppendOnly ==
    [][/\ Len(db') \in {Len(db), Len(db) + 1}
       /\ \A i \in 1..Len(db) : db'[i] = db[i]
       /\ \A i \in 1..Len(db') : \A j \in 1..Len(db') :
             i < j => db'[i].id < db'[j].id]_vars

C13_Witness ==
    \E w \in Workers : \E o \in Workers :
        /\ pc[w] \in CleanupStates
        /\ pc[o] \in CleanupStates
        /\ lastrowid[w] = 1
        /\ lastrowid[o] = 2
        /\ db[1].id < db[2].id

\* The request of w is between its successful staging and its cleanup.
InFlightStaged(w) == pc[w] \in {"recognize", "decide"} \cup CleanupStates

\* C14: two requests that are both between staging and cleanup never have
\* the same staged path, and the file a request hands to recognize_face
\* exists and holds that request's upload, also for uploads of one
\* original filename received in the same second.
C14_StagedPathsDistinct ==
    \A w \in Workers :
        /\ \A o \in Workers \ {w} :
              (InFlightStaged(w) /\ InFlightStaged(o)) =>
                  filename[w] # filename[o]
        /\ pc[w] = "recognize" =>
              /\ filename[w] \in DOMAIN files
              /\ files[filename[w]] = w

\* The answer v of /verify_location is the one its coordinates call for:
\* allowed with 200 up to RADIUS_METERS from the campus, refused with 403
\* beyond; finite coordinates always get one of the two.
VerdictByDistance(v) ==
    (v.kind # "none" /\ v.latitude.t = "float" /\ v.longitude.t = "float") =>
        LET d == Abs(v.latitude.v - COLLEGE_LAT) IN
        /\ v.kind = "reply"
        /\ d <= RADIUS_METERS =>
              (v.status = 200 /\ v.body.allowed /\ v.body.distance = Float(d))
        /\ d > RADIUS_METERS =>
              (v.status = 403 /\ ~v.body.allowed /\ v.body.distance = Float(d))

\* C15: for parseable coordinates /verify_location answers allowed:true
\* (200) when the distance to the campus is <= 1000 m and allowed:false
\* with 403 when it is > 1000 m, and the geofence stage of
\* process_mark_request, run on the same coordinates, rejects with
\* outside_radius exactly when /verify_location answered 403.
C15_VerifyAgreesWithGeofence ==
    [][/\ VerdictByDistance(verdict')
       /\ \A w \in Workers :
             (pc[w] = "geo" /\ pc'[w] # "geo" /\ verdict.kind # "none"
                   /\ verdict.latitude = lat[w]
                   /\ verdict.longitude = lon[w]) =>
                 (AnsweredIn(pc', ret', w, "outside_radius", 403)
                     <=> (verdict.kind = "reply" /\ verdict.status = 403))
      ]_vars

C15_Witness ==
    \E w \in Workers : \E o \in Workers :
        /\ Answered(w, "outside_radius", 403)
        /\ verdict.kind = "reply"
        /\ verdict.status = 403
        /\ verdict.body.distance = ret[w][1].distance
        /\ Has(o, "staged")

\* C16: /attendance_records answers with min(n, 200) rows of the n rows in
\* the table, they are the most recently appended ones, and no row is
\* followed by one that was appended after it.
C16_RecordsNewestFirst ==
    records.kind = "reply" =>
        LET rows == records.rows
            n == records.n
            m == Len(rows)
        IN  /\ m = Min(n, RECORDS_LIMIT)
            /\ \A i \in 1..m : rows[i].id > n - m
            /\ \A i \in 1..m : \A j \in 1..m :
                  i < j => rows[i].id > rows[j].id

\* C17: a call of rate_limited for one key leaves every other key's stored
\* time as it is, and a call is blocked only on account of an admitted
\* call for its own key, under every interleaving: calls for different
\* keys never block each other.
C17_KeysIndependent ==
    [][\A w \in Workers :
          (pc[w] \in {"rate", "rate_decide"} /\ pc'[w] # pc[w]) =>
              LET k == client_key[w] IN
              /\ \A o \in DOMAIN last_request_at' \ {k} :
                    /\ o \in DOMAIN last_request_at
                    /\ last_request_at'[o] = last_request_at[o]
              /\ AnsweredIn(pc', ret', w, "rate_limited", 429) =>
                    \E a \in admitted :
                        /\ a.key = k
                        /\ a.by # w
                        /\ now[w] - a.now < RATE_WINDOW
      ]_vars

C17_Witness ==
    \E w \in Workers : \E o \in Workers :
        /\ pc[w] = "rate_decide"
        /\ client_key[w] = "k1"
        /\ last_request_at["k1"] = 0
        /\ [by |-> o, key |-> "k2", now |-> now[w]] \in admitted
        /\ last_request_at["k2"] = now[w]

\* C18: the row inserted for a not_recognized decision (null user_id)
\* holds the confidence the gateway returned, as it was, also when it is
\* below the threshold or the identity is null, and holds 0.0 when the
\* gateway returned None for the confidence.
C18_NotRecognizedKeepsConfidence ==
    \A w \in Workers :
        (lastrowid[w] \in 1..Len(db) /\ db[lastrowid[w]].user_id = NONE) =>
            db[lastrowid[w]].confidence =
                IF gateway[w].confidence.t = "none" THEN Float(0)
                ELSE gateway[w].confidence

C18_Witness ==
    \E w \in Workers : \E o \in Workers :
        /\ gateway[w] = Pair("user42", Float(59))
        /\ lastrowid[w] \in 1..Len(db)
        /\ db[lastrowid[w]].user_id = NONE
        /\ db[lastrowid[w]].confidence = Float(59)
        /\ gateway[o] = Pair("user42", NoneConf)
        /\ lastrowid[o] \in 1..Len(db)
        /\ db[lastrowid[o]].confidence = Float(0)

\* d is a number with 0 <= d <= RADIUS_METERS.
WithinRadius(d) == d.t = "float" /\ d.v \in 0..RADIUS_METERS

\* C19: every request that gets past the geofence (as every request
\* answered 200 or 401 has), every row of the table and every 200
\* response has a distance d with 0 <= d <= RADIUS_METERS, for every
\* latitude and longitude float() parses, 'nan' and 'inf' included.
C19_GeofenceNeverPassedOutside ==
    /\ \A w \in Workers : pc[w] = "stage" => WithinRadius(dist[w])
    /\ \A i \in 1..Len(db) : WithinRadius(db[i].distance)
    /\ \A w \in Workers :
          (pc[w] = "done" /\ ret[w][2] = 200) =>
              WithinRadius(ret[w][1].distance)

\* An earlier call for the key of w's request, admitted less than
\* RATE_WINDOW before w's call.
AdmittedInWindow(w, a) ==
    /\ a.key = client_key[w]
    /\ a.by # w
    /\ now[w] - a.now < RATE_WINDOW

\* C20 as stated: a request is answered rate_limited (429) only on
\* account of an accepted attendance attempt (one answered 200) of its
\* key inside the window; a request rejected outside_radius, or failing
\* later, does not use up the slot.
C20_SlotConsumedOnlyByAccepted ==
    [][\A w \in Workers :
          (pc[w] = "rate_decide"
                /\ AnsweredIn(pc', ret', w, "rate_limited", 429)) =>
              \E a \in admitted :
                  /\ AdmittedInWindow(w, a)
                  /\ pc[a.by] = "done"
                  /\ ret[a.by][2] = 200]_vars

\* C20 (amended): the slot of a key is used up by every request of that
\* key the rate limiter admits, whatever becomes of the request
\* afterwards: a request that follows one admitted for its key less than
\* RATE_WINDOW before is answered 429, also when the earlier one was
\* rejected outside_radius or failed at a later stage; a request that
\* failed validation or was itself blocked uses up nothing.
C20_SlotConsumedByEveryAdmitted ==
    [][\A w \in Workers :
          (pc[w] = "rate_decide" /\ pc'[w] # "rate_decide") =>
              /\ \A o \in Workers \ {w} :
                    (pc[o] \in Terminal /\ Has(o, "rate_update")
                          /\ \E a \in admitted :
                                a.by = o /\ AdmittedInWindow(w, a)) =>
                        AnsweredIn(pc', ret', w, "rate_limited", 429)
              /\ AnsweredIn(pc', ret', w, "rate_limited", 429) =>
                    \E o \in Workers \ {w} :
                        /\ Has(o, "rate_update")
                        /\ \E a \in admitted :
                              a.by = o /\ AdmittedInWindow(w, a)]_vars

C20_Witness ==
    \E w \in Workers : \E o \in Workers :
        /\ Answered(w, "rate_limited", 429)
        /\ Answered(o, "outside_radius", 403)
        /\ Has(o, "rate_update")
        /\ \E a \in admitted : a.by = o /\ clock - a.now < RATE_WINDOW

====
